---- MODULE Spec2Model ----
(***************************************************************************)
(* Artworks-Reconstruction: clustering utilities.                          *)
(*                                                                         *)
(* Two source files are modelled:                                          *)
(*   src/clustering/clustering.py   (the notebook module, "main")          *)
(*   src/utils/clustering.py        (the package module, "utils")          *)
(* Where both define a function of the same name, the utils definition     *)
(* carries the prefix utils_.                                              *)
(*                                                                         *)
(* Floating point numbers are modelled in fixed point: a float is a record *)
(* [nan, v]; v counts units of 1/Scale (or of the stated fraction of it).  *)
(***************************************************************************)
EXTENDS Integers, Sequences, FiniteSets, TLC

VARIABLES
    \* ---- histogram distance engine (compute_color_histogram_dist_matrix)
    histograms,           \* the list of fragment histograms
    histogram_image_ref,  \* the reference histogram, or NoRef
    distance_matrix,      \* the N x N matrix under construction
    hist_i, hist_j,       \* loop indices (0-based, as in the code)
    hist_pc,              \* "idle" | "loop" | "done"
    \* ---- gradient distance engine (compute_jacobians_dist_matrix)
    jacobians,            \* the list of gradient fields
    jacobian_image_ref,   \* the reference gradient field, or NoRef
    combine,              \* the combine argument
    jac_matrix,           \* the N x N matrix under construction, <<>> before np.zeros
    jac_i, jac_j,         \* loop indices (0-based)
    jac_calls,            \* calls of compute_jacobians_distance made so far
    jac_pc,               \* "idle" | "loop" | "done" | "raised"
    jac_error,            \* the exception raised, or "none"
    \* ---- file system and cluster materializer (create_cluster_dirs)
    fs_dirs,              \* the directories that exist (paths)
    fs_files,             \* the files that exist: [dir, name, content]
    fs_dirs0, fs_files0,  \* the file system when the call was made
    fragment_paths,       \* main: the argument; utils: the filtered listing
    labels,               \* the labels argument
    cl_impl,              \* "main" | "utils": which module's function runs
    cl_idx,               \* idx of the loop (0-based)
    cl_pc,                \* "idle" | "rmtree" | "list" | "loop" | "done" | "raised"
    cl_error,             \* the exception raised, or "none"
    \* ---- evaluation module (precision, recall, f1, compute_in_out_metrics)
    ev_dirs,              \* the directories of the tree under root_dir
    ev_files,             \* the files of the tree: [dir, name]
    ev_out,               \* the last call and what it returned
    \* ---- dataset builder (create_dataset)
    ds_exists,            \* os.path.exists(img_dir)
    ds_listing,           \* os.listdir(img_dir), in the order it is returned
    img_ext,              \* the img_ext argument
    images,               \* the list under construction: one image per element
    ds_k,                 \* position in the listing (0-based)
    ds_pc,                \* "idle" | "loop" | "done" | "raised"
    \* ---- feature extractors (compute_color_histograms, compute_jacobians)
    feat,                 \* the call: its arguments, its lists, its position
    \* ---- SSIM engines (compute_ssim_scores_fragment_per_fragment[_hsv])
    ssim,                 \* the call: fragments, ssim_scores, i, j, its position
    \* ---- the pair tasks of an engine, run in any order
    par                   \* the shared matrix and how far each pair's task is

histVars == <<histograms, histogram_image_ref, distance_matrix, hist_i, hist_j, hist_pc>>

jacVars == <<jacobians, jacobian_image_ref, combine, jac_matrix, jac_i, jac_j,
             jac_calls, jac_pc, jac_error>>

fsVars == <<fs_dirs, fs_files>>

clVars == <<fs_dirs0, fs_files0, fragment_paths, labels, cl_impl, cl_idx, cl_pc, cl_error>>

evVars == <<ev_dirs, ev_files, ev_out>>

dsVars == <<ds_exists, ds_listing, img_ext, images, ds_k, ds_pc>>

vars == <<histVars, jacVars, fsVars, clVars, evVars, dsVars, feat, ssim, par>>

-----------------------------------------------------------------------------
(* Bounds *)

\* Longest list of features handed to a distance engine.
MaxN == 3

\* Fixed-point resolution of a float: one unit is 1/Scale.
Scale == 100

\* Longest list of gradient fields handed to the gradient engine.
MaxJac == 2

\* Longest list of fragment paths and of labels handed to create_cluster_dirs.
MaxFrag == 3

\* Most files in the tree handed to the evaluation functions.
MaxTreeFiles == 3

\* Most entries of the directory handed to create_dataset.
MaxDirFiles == 2

\* Most entries of the directory the pipeline runs on.
MaxPipeFiles == 3

\* Longest list of images handed to a feature extractor.
MaxImages == 2

\* beta of cv.normalize(..., alpha=0, beta=1, NORM_MINMAX): the value of the
\* fullest bin.  A bin of the model is empty (0) or full (BinOne).
BinOne == 1

\* Bins of a histogram (8*8*8 in the code; NBins here).
Bins == {1, 2, 3}

NBins == Cardinality(Bins)

-----------------------------------------------------------------------------
(* Floats *)

FNum(x) == [nan |-> FALSE, v |-> x]

FNaN == [nan |-> TRUE, v |-> 0]

\* Python's == on floats: NaN equals nothing, itself included.
FEq(a, b) == ~a.nan /\ ~b.nan /\ a.v = b.v

\* Python's >= 0 on a float: false for NaN.
FGe0(a) == ~a.nan /\ a.v >= 0

Abs(x) == IF x < 0 THEN -x ELSE x

Min2(a, b) == IF a < b THEN a ELSE b

RECURSIVE SqrtBetween(_, _, _)
\* the r with r*r <= x < (r+1)*(r+1), given lo*lo <= x < hi*hi
SqrtBetween(x, lo, hi) ==
    IF hi - lo <= 1 THEN lo
    ELSE LET mid == (lo + hi) \div 2
         IN  IF mid * mid <= x THEN SqrtBetween(x, mid, hi)
             ELSE SqrtBetween(x, lo, mid)

RECURSIVE Above(_, _)
\* a power-of-two multiple of hi whose square exceeds x
Above(x, hi) == IF hi * hi > x THEN hi ELSE Above(x, 2 * hi)

\* floor(sqrt(x)) for x >= 0
ISqrt(x) == SqrtBetween(x, 0, Above(x, 1))

RECURSIVE SumTo(_, _)
\* f[1] + ... + f[n]
SumTo(f, n) == IF n = 0 THEN 0 ELSE f[n] + SumTo(f, n - 1)

-----------------------------------------------------------------------------
(* Histograms *)

NoRef == <<>>

\* What cv.normalize(..., NORM_MINMAX, alpha=0, beta=1) returns: the smallest
\* bin at 0 and the largest at 1.0, or every bin at 0 when all bins are equal.
IsMinMaxNormalized(h) ==
    \/ \A k \in Bins : h[k] = 0
    \/ (\E k \in Bins : h[k] = 0) /\ (\E k \in Bins : h[k] = BinOne)

HistPool == {h \in [Bins -> 0..BinOne] : IsMinMaxNormalized(h)}

HistSum(h) == SumTo(h, NBins)

\* cv.compareHist(h1, h2, HISTCMP_CORREL), in units of 1/Scale
HISTCMP_CORREL(h1, h2) ==
    LET s1  == HistSum(h1)
        s2  == HistSum(h2)
        s11 == SumTo([k \in Bins |-> h1[k] * h1[k]], NBins)
        s22 == SumTo([k \in Bins |-> h2[k] * h2[k]], NBins)
        s12 == SumTo([k \in Bins |-> h1[k] * h2[k]], NBins)
        num == NBins * s12 - s1 * s2
        den == (NBins * s11 - s1 * s1) * (NBins * s22 - s2 * s2)
        mag == ISqrt((num * num * Scale * Scale) \div den)
    IN  IF den = 0 THEN Scale
        ELSE IF num < 0 THEN -mag ELSE mag

\* cv.compareHist(h1, h2, HISTCMP_CHISQR), in units of 1/Scale: the bins
\* where h1 is 0 are skipped.
HISTCMP_CHISQR(h1, h2) ==
    SumTo([k \in Bins |->
             IF h1[k] = 0 THEN 0
             ELSE ((h1[k] - h2[k]) * (h1[k] - h2[k]) * Scale) \div (h1[k] * BinOne)],
          NBins)

\* cv.compareHist(h1, h2, HISTCMP_INTERSECT), in bin units
HISTCMP_INTERSECT(h1, h2) == SumTo([k \in Bins |-> Min2(h1[k], h2[k])], NBins)

\* The measure with its sign, before the code takes the absolute value.
SignedSimilarity(h1, h2) ==
    2 * HISTCMP_CORREL(h1, h2)
      + (HISTCMP_INTERSECT(h1, h2) * Scale) \div HistSum(h1)
      - HISTCMP_CHISQR(h1, h2)

\* compute_histograms_similarity with "if distance < 0: distance = -distance"
\* left out
NoSignFlip(h1, h2) ==
    IF HistSum(h1) = 0 THEN FNaN ELSE FNum(SignedSimilarity(h1, h2))

\* compute_histograms_similarity(histogram1, histogram2), in units of
\* 1/(4*Scale): 0.5*correlation + 0.25*intersection - 0.25*chi_square, made
\* non-negative.  intersection is divided by np.sum(histogram1): 0.0/0.0 is
\* NaN in numpy, and NaN < 0 is false.
compute_histograms_similarity(h1, h2) ==
    IF HistSum(h1) = 0 THEN FNaN ELSE FNum(Abs(SignedSimilarity(h1, h2)))

\* The blend with the weights of distance and distance_i_ref exchanged
BlendSwappedWeights(d, di, dj) ==
    IF d.nan \/ di.nan \/ dj.nan THEN FNaN ELSE FNum(2 * d.v + di.v + 2 * dj.v)

\* distance*0.25 + distance_i_ref*0.5 + distance_j_ref*0.5, in units of
\* 1/(16*Scale)
BlendWithRef(d, di, dj) ==
    IF d.nan \/ di.nan \/ dj.nan THEN FNaN ELSE FNum(d.v + 2 * di.v + 2 * dj.v)

\* A distance stored as it is, in units of 1/(16*Scale)
Unblended(d) == IF d.nan THEN FNaN ELSE FNum(4 * d.v)

\* The value the loop body writes for the pair (i, j), 1-based.
HistPairDistance(hs, ref, i, j) ==
    LET distance == compute_histograms_similarity(hs[i], hs[j])
    IN  IF ref # NoRef
        THEN BlendWithRef(distance,
                          compute_histograms_similarity(hs[i], ref),
                          compute_histograms_similarity(hs[j], ref))
        ELSE Unblended(distance)

\* np.zeros((n, n))
Zeros(n) == [r \in 1..n |-> [c \in 1..n |-> FNum(0)]]

\* The first write without the second
WriteUpperOnly(m, i, j, d) == [m EXCEPT ![i][j] = d]

\* The two writes, and a third one to the diagonal cell of row i
WriteWithDiagonal(m, i, j, d) == [m EXCEPT ![i][j] = d, ![j][i] = d, ![i][i] = d]

\* distance_matrix[i, j] = distance; distance_matrix[j, i] = distance
WriteSymmetric(m, i, j, d) == [m EXCEPT ![i][j] = d, ![j][i] = d]

\* The pair after (i, j) in "for i in range(n): for j in range(i+1, n)",
\* 0-based; <<n, n>> when the loops are over.
RECURSIVE NextPair(_, _, _)
NextPair(i, j, n) ==
    IF i >= n THEN <<n, n>>
    ELSE IF j + 1 < n THEN <<i, j + 1>>
    ELSE IF i + 2 < n THEN <<i + 1, i + 2>>
    ELSE <<n, n>>

FirstPair(n) == IF n >= 2 THEN <<0, 1>> ELSE <<n, n>>

HistIdle ==
    /\ histograms = <<>>
    /\ histogram_image_ref = NoRef
    /\ distance_matrix = <<>>
    /\ hist_i = 0
    /\ hist_j = 0
    /\ hist_pc = "off"

ListsOf(S, n) == UNION {[1..k -> S] : k \in 0..n}

\* A call compute_color_histogram_dist_matrix(histograms, histogram_image_ref)
\* is about to be made.
HistInit ==
    /\ histograms \in ListsOf(HistPool, MaxN)
    /\ histogram_image_ref \in HistPool \cup {NoRef}
    /\ distance_matrix = <<>>
    /\ hist_i = 0
    /\ hist_j = 0
    /\ hist_pc = "idle"

\* distance_matrix = np.zeros(...), and the loops start
HistEnter ==
    /\ hist_pc = "idle"
    /\ distance_matrix' = Zeros(Len(histograms))
    /\ hist_i' = FirstPair(Len(histograms))[1]
    /\ hist_j' = FirstPair(Len(histograms))[2]
    /\ hist_pc' = "loop"
    /\ UNCHANGED <<histograms, histogram_image_ref>>
    /\ UNCHANGED <<jacVars, fsVars, clVars, evVars, dsVars, feat, ssim, par>>

\* one pass of the inner loop body
HistPair ==
    /\ hist_pc = "loop"
    /\ hist_i < Len(histograms)
    /\ distance_matrix' =
          WriteSymmetric(distance_matrix, hist_i + 1, hist_j + 1,
                         HistPairDistance(histograms, histogram_image_ref,
                                          hist_i + 1, hist_j + 1))
    /\ hist_i' = NextPair(hist_i, hist_j, Len(histograms))[1]
    /\ hist_j' = NextPair(hist_i, hist_j, Len(histograms))[2]
    /\ UNCHANGED <<histograms, histogram_image_ref, hist_pc>>
    /\ UNCHANGED <<jacVars, fsVars, clVars, evVars, dsVars, feat, ssim, par>>

\* return distance_matrix
HistReturn ==
    /\ hist_pc = "loop"
    /\ hist_i >= Len(histograms)
    /\ hist_pc' = "done"
    /\ UNCHANGED <<histograms, histogram_image_ref, distance_matrix, hist_i, hist_j>>
    /\ UNCHANGED <<jacVars, fsVars, clVars, evVars, dsVars, feat, ssim, par>>

-----------------------------------------------------------------------------
(* Gradient fields ("Jacobians") *)

\* Pixels of the shared resize target.
Pixels == {1}

NPixels == Cardinality(Pixels)

\* Values of one gradient component at one pixel.
GradValues == {0, 1}

\* A gradient field: J[1] the x-direction, J[2] the y-direction, each a pair
\* (colour gradient, grayscale gradient) of arrays over Pixels.  The code's
\* jacobian[a][b] is J[a + 1][b + 1].
JacPool == [1..2 -> [1..2 -> [Pixels -> GradValues]]]

\* jacobian.flatten(): the 2 x 2 x Pixels values in a 1-D array, row-major
flatten_jacobian(J) ==
    [k \in 1..(4 * NPixels) |->
        J[((k - 1) \div (2 * NPixels)) + 1]
         [(((k - 1) \div NPixels) % 2) + 1]
         [((k - 1) % NPixels) + 1]]

\* The number of axes of an array handed to reshape_jacobians: a field has
\* four, a flattened field has one.
Ndim(jacobian) == IF DOMAIN jacobian = 1..(4 * NPixels) THEN 1 ELSE 4

\* jacobian[0][0], jacobian[0][1] and jacobian[1][1] are arrays: on a 1-D
\* array jacobian[0] is a number, and indexing it raises IndexError.
Subscriptable(jacobian) == Ndim(jacobian) >= 2

\* reshape_jacobians with gy taken from the colour slot, jacobian[1][0]
ReshapeColorGy(J) ==
    [gx      |-> J[1][1],
     gx_gray |-> J[1][2],
     gy      |-> J[2][1],
     gy_gray |-> J[2][2]]

\* reshape_jacobians(jacobian): gx, gx_gray, gy, gy_gray
reshape_jacobians(J) ==
    [gx      |-> J[1][1],
     gx_gray |-> J[1][2],
     gy      |-> J[2][2],
     gy_gray |-> J[2][2]]

\* pairwise_distances(a, b, metric='euclidean') of two 1 x n arrays, in units
\* of 1/Scale
pairwise_distances(a, b) ==
    ISqrt(SumTo([p \in Pixels |-> (a[p] - b[p]) * (a[p] - b[p])], NPixels) * Scale * Scale)

Max2(a, b) == IF a > b THEN a ELSE b

\* np.mean of four numbers, in quarters
Mean4(a, b, c, d) == a + b + c + d

\* np.median of four numbers (the mean of the two middle ones), in quarters
Median4(a, b, c, d) ==
    2 * (a + b + c + d - Min2(Min2(a, b), Min2(c, d)) - Max2(Max2(a, b), Max2(c, d)))

\* compute_jacobians_distance(gx, ..., gy_gray_2) with the enclosing call's
\* combine, in units of 1/(4*Scale); "distance = 0" stays when combine is
\* neither mean nor median.
compute_jacobians_distance(g, g2, comb) ==
    LET dist_gx      == pairwise_distances(g.gx, g2.gx)
        dist_gy      == pairwise_distances(g.gy, g2.gy)
        dist_gx_gray == pairwise_distances(g.gx_gray, g2.gx_gray)
        dist_gy_gray == pairwise_distances(g.gy_gray, g2.gy_gray)
    IN  IF comb = "mean" THEN FNum(Mean4(dist_gx, dist_gy, dist_gx_gray, dist_gy_gray))
        ELSE IF comb = "median"
             THEN FNum(Median4(dist_gx, dist_gy, dist_gx_gray, dist_gy_gray))
        ELSE FNum(0)

\* The value the loop body writes for the pair (i, j), 1-based.
JacPairDistance(js, ref, comb, i, j) ==
    LET g        == reshape_jacobians(js[i])
        g2       == reshape_jacobians(js[j])
        distance == compute_jacobians_distance(g, g2, comb)
    IN  IF ref # NoRef
        THEN BlendWithRef(distance,
                          compute_jacobians_distance(g, reshape_jacobians(ref), comb),
                          compute_jacobians_distance(g2, reshape_jacobians(ref), comb))
        ELSE Unblended(distance)

\* Calls of compute_jacobians_distance in one pass of the loop body.
CallsPerPair(ref) == IF ref # NoRef THEN 3 ELSE 1

\* The check of combine left out
CombineUnchecked(comb) == TRUE

\* "combine not in ['mean', 'median']" is false
CombineAccepted(comb) == comb \in {"mean", "median"}

CombineValues == {"mean", "median", "invalid"}

JacIdle ==
    /\ jacobians = <<>>
    /\ jacobian_image_ref = NoRef
    /\ combine = "mean"
    /\ jac_matrix = <<>>
    /\ jac_i = 0
    /\ jac_j = 0
    /\ jac_calls = 0
    /\ jac_pc = "off"
    /\ jac_error = "none"

\* A call compute_jacobians_dist_matrix(jacobians, jacobian_image_ref, combine)
\* is about to be made.
JacInit ==
    /\ jacobians \in ListsOf(JacPool, MaxJac)
    /\ jacobian_image_ref \in JacPool \cup {NoRef}
    /\ combine \in CombineValues
    /\ jac_matrix = <<>>
    /\ jac_i = 0
    /\ jac_j = 0
    /\ jac_calls = 0
    /\ jac_pc = "idle"
    /\ jac_error = "none"

\* if combine not in ['mean', 'median']: raise ValueError(...)
JacRaise ==
    /\ jac_pc = "idle"
    /\ ~CombineAccepted(combine)
    /\ jac_pc' = "raised"
    /\ jac_error' = "ValueError"
    /\ UNCHANGED <<jacobians, jacobian_image_ref, combine, jac_matrix, jac_i, jac_j, jac_calls>>
    /\ UNCHANGED <<histVars, fsVars, clVars, evVars, dsVars, feat, ssim, par>>

\* distance_matrix = np.zeros(...), and the loops start
JacEnter ==
    /\ jac_pc = "idle"
    /\ CombineAccepted(combine)
    /\ jac_matrix' = Zeros(Len(jacobians))
    /\ jac_i' = FirstPair(Len(jacobians))[1]
    /\ jac_j' = FirstPair(Len(jacobians))[2]
    /\ jac_pc' = "loop"
    /\ UNCHANGED <<jacobians, jacobian_image_ref, combine, jac_calls, jac_error>>
    /\ UNCHANGED <<histVars, fsVars, clVars, evVars, dsVars, feat, ssim, par>>

\* one pass of the inner loop body
JacPair ==
    /\ jac_pc = "loop"
    /\ jac_i < Len(jacobians)
    /\ IF ~Subscriptable(jacobians[jac_i + 1]) \/ ~Subscriptable(jacobians[jac_j + 1])
       THEN /\ jac_pc' = "raised"
            /\ jac_error' = "IndexError"
            /\ UNCHANGED <<jac_matrix, jac_calls, jac_i, jac_j>>
       ELSE IF jacobian_image_ref # NoRef /\ ~Subscriptable(jacobian_image_ref)
       THEN /\ jac_pc' = "raised"
            /\ jac_error' = "IndexError"
            /\ jac_calls' = jac_calls + 1
            /\ UNCHANGED <<jac_matrix, jac_i, jac_j>>
       ELSE /\ jac_matrix' =
                  WriteSymmetric(jac_matrix, jac_i + 1, jac_j + 1,
                                 JacPairDistance(jacobians, jacobian_image_ref, combine,
                                                 jac_i + 1, jac_j + 1))
            /\ jac_calls' = jac_calls + CallsPerPair(jacobian_image_ref)
            /\ jac_i' = NextPair(jac_i, jac_j, Len(jacobians))[1]
            /\ jac_j' = NextPair(jac_i, jac_j, Len(jacobians))[2]
            /\ UNCHANGED <<jac_pc, jac_error>>
    /\ UNCHANGED <<jacobians, jacobian_image_ref, combine>>
    /\ UNCHANGED <<histVars, fsVars, clVars, evVars, dsVars, feat, ssim, par>>

\* return distance_matrix
JacReturn ==
    /\ jac_pc = "loop"
    /\ jac_i >= Len(jacobians)
    /\ jac_pc' = "done"
    /\ UNCHANGED <<jacobians, jacobian_image_ref, combine, jac_matrix, jac_i, jac_j,
                   jac_calls, jac_error>>
    /\ UNCHANGED <<histVars, fsVars, clVars, evVars, dsVars, feat, ssim, par>>

JacNext == JacRaise \/ JacEnter \/ JacPair \/ JacReturn

HistNext == HistEnter \/ HistPair \/ HistReturn

-----------------------------------------------------------------------------
(* SSIM engines: compute_ssim_scores_fragment_per_fragment and its _hsv     *)
(* variant.  A fragment of the model is an image of one colour.             *)

\* Height and width of a fragment; structural_similarity slides a window of
\* 7 x 7 pixels.
SsimShapes == {<<7, 7>>, <<3, 3>>}

Colors == {"black", "white", "blue"}

FragmentPool == [shape : SsimShapes, color : Colors]

\* cv.cvtColor(fragment, cv.COLOR_BGR2GRAY): the value of every pixel
COLOR_BGR2GRAY(color) ==
    CASE color = "black" -> 0
      [] color = "white" -> 255
      [] color = "blue" -> 29

\* cv.cvtColor(fragment, cv.COLOR_BGR2HSV), then cv.split: h, s, v of every
\* pixel
COLOR_BGR2HSV(color) ==
    CASE color = "black" -> <<0, 0, 0>>
      [] color = "white" -> <<0, 0, 255>>
      [] color = "blue" -> <<120, 255, 255>>

\* structural_similarity refuses images of different shapes and images
\* smaller than its window (ValueError).
SsimDefined(f1, f2) ==
    /\ f1.shape = f2.shape
    /\ f1.shape[1] >= 7
    /\ f1.shape[2] >= 7

\* structural_similarity of two uint8 channels of one value each, a and b, in
\* units of 1/Scale: variances and covariance are 0, which leaves
\* (2ab + C1) / (a*a + b*b + C1) with C1 = (0.01 * 255)^2, taken as 6.5.
structural_similarity(a, b) ==
    ((4 * a * b + 13) * Scale) \div (2 * (a * a + b * b) + 13)

\* The score of one pair in units of 1/(3*Scale): the grayscale score, or
\* np.mean of the h, s and v scores.
SsimScore(f1, f2, fn) ==
    IF fn = "gray"
    THEN FNum(3 * structural_similarity(COLOR_BGR2GRAY(f1.color), COLOR_BGR2GRAY(f2.color)))
    ELSE LET c1 == COLOR_BGR2HSV(f1.color)
             c2 == COLOR_BGR2HSV(f2.color)
         IN  FNum(structural_similarity(c1[1], c2[1])
                    + structural_similarity(c1[2], c2[2])
                    + structural_similarity(c1[3], c2[3]))

\* np.ones((n, n)), in units of 1/(3*Scale)
Ones(n) == [r \in 1..n |-> [c \in 1..n |-> FNum(3 * Scale)]]

SsimIdle ==
    ssim = [fn |-> "off", fragments |-> <<>>, ssim_scores |-> <<>>, i |-> 0, j |-> 0,
            pc |-> "off", error |-> "none"]

\* A call of one of the two SSIM engines is about to be made.
SsimInit ==
    \E fn \in {"gray", "hsv"}, fragments \in ListsOf(FragmentPool, MaxN) :
        ssim = [fn |-> fn, fragments |-> fragments, ssim_scores |-> <<>>, i |-> 0, j |-> 0,
                pc |-> "idle", error |-> "none"]

\* ssim_scores = np.ones(...), and the loops start
SsimEnter ==
    /\ ssim.pc = "idle"
    /\ ssim' = [ssim EXCEPT !.ssim_scores = Ones(Len(ssim.fragments)),
                            !.i = FirstPair(Len(ssim.fragments))[1],
                            !.j = FirstPair(Len(ssim.fragments))[2],
                            !.pc = "loop"]
    /\ UNCHANGED <<histVars, jacVars, fsVars, clVars, evVars, dsVars, feat, par>>

\* one pass of the inner loop body
SsimPair ==
    /\ ssim.pc = "loop"
    /\ ssim.i < Len(ssim.fragments)
    /\ LET f1 == ssim.fragments[ssim.i + 1]
           f2 == ssim.fragments[ssim.j + 1]
       IN  IF ~SsimDefined(f1, f2)
           THEN ssim' = [ssim EXCEPT !.pc = "raised", !.error = "ValueError"]
           ELSE ssim' = [ssim EXCEPT
                            !.ssim_scores = WriteSymmetric(ssim.ssim_scores, ssim.i + 1,
                                                           ssim.j + 1,
                                                           SsimScore(f1, f2, ssim.fn)),
                            !.i = NextPair(ssim.i, ssim.j, Len(ssim.fragments))[1],
                            !.j = NextPair(ssim.i, ssim.j, Len(ssim.fragments))[2]]
    /\ UNCHANGED <<histVars, jacVars, fsVars, clVars, evVars, dsVars, feat, par>>

\* return ssim_scores
SsimReturn ==
    /\ ssim.pc = "loop"
    /\ ssim.i >= Len(ssim.fragments)
    /\ ssim' = [ssim EXCEPT !.pc = "done"]
    /\ UNCHANGED <<histVars, jacVars, fsVars, clVars, evVars, dsVars, feat, par>>

SsimNext == SsimEnter \/ SsimPair \/ SsimReturn

-----------------------------------------------------------------------------
(* Feature extractors: compute_color_histograms and compute_jacobians.      *)
(* An image of the model is what the library computes from it: its          *)
(* normalized histogram, or the gradient field of its resized HSV form.     *)

\* The shape of cv.calcHist(..., [8, 8, 8], ...): three axes.
HistShape == <<1, 1, NBins>>

\* cv.calcHist and cv.normalize of an image: a 3-D array
calcHist(image) == [shape |-> HistShape, bins |-> image]

\* hist_src.flatten(): the same values in a 1-D array
flatten_hist(hist) ==
    [shape |-> <<hist.shape[1] * hist.shape[2] * hist.shape[3]>>, bins |-> hist.bins]

\* The array the loop of compute_color_histograms appends for an image
HistogramOf(image, flatten) ==
    IF flatten THEN flatten_hist(calcHist(image)) ELSE calcHist(image)

\* compute_jacobian(image, max_width, max_height, flatten)
compute_jacobian(image, flatten) == IF flatten THEN flatten_jacobian(image) ELSE image

\* No feature extractor has been called.
FeatIdle ==
    feat = [fn |-> "off", images |-> <<>>, image_ref |-> NoRef, flatten |-> TRUE,
            out |-> <<>>, ref_out |-> NoRef, pc |-> "off", error |-> "none"]

\* A call of compute_color_histograms or of compute_jacobians is about to be
\* made (utils' functions are main's without image_ref).
FeatInit ==
    \E fn \in {"compute_color_histograms", "compute_jacobians"}, flatten \in BOOLEAN :
      \E imgs \in ListsOf(IF fn = "compute_jacobians" THEN JacPool ELSE HistPool,
                            MaxImages),
         image_ref \in (IF fn = "compute_jacobians" THEN JacPool ELSE HistPool)
                          \cup {NoRef} :
        feat = [fn |-> fn, images |-> imgs, image_ref |-> image_ref,
                flatten |-> flatten, out |-> <<>>, ref_out |-> NoRef, pc |-> "idle",
                error |-> "none"]

\* compute_jacobians: max(image.shape[1] for image in images) of no image
FeatRaise ==
    /\ feat.pc = "idle"
    /\ feat.fn = "compute_jacobians"
    /\ feat.images = <<>>
    /\ feat' = [feat EXCEPT !.pc = "raised", !.error = "ValueError"]
    /\ UNCHANGED <<histVars, jacVars, fsVars, clVars, evVars, dsVars, ssim, par>>

\* The list is created and the loop over the images starts.
FeatEnter ==
    /\ feat.pc = "idle"
    /\ feat.fn = "compute_jacobians" => feat.images # <<>>
    /\ feat' = [feat EXCEPT !.pc = "loop"]
    /\ UNCHANGED <<histVars, jacVars, fsVars, clVars, evVars, dsVars, ssim, par>>

\* One pass of "for image in images"
FeatImage ==
    /\ feat.pc = "loop"
    /\ Len(feat.out) < Len(feat.images)
    /\ LET image == feat.images[Len(feat.out) + 1]
       IN  feat' = [feat EXCEPT !.out =
                       Append(feat.out,
                              IF feat.fn = "compute_jacobians"
                              THEN compute_jacobian(image, feat.flatten)
                              ELSE HistogramOf(image, feat.flatten))]
    /\ UNCHANGED <<histVars, jacVars, fsVars, clVars, evVars, dsVars, ssim, par>>

\* After the loop: the reference's feature when image_ref is given, and the
\* return.  compute_color_histograms returns hist_image_ref as calcHist and
\* normalize left it; compute_jacobians passes flatten on.
FeatReturn ==
    /\ feat.pc = "loop"
    /\ Len(feat.out) = Len(feat.images)
    /\ feat' = [feat EXCEPT
                   !.ref_out = IF feat.image_ref = NoRef THEN NoRef
                               ELSE IF feat.fn = "compute_jacobians"
                               THEN compute_jacobian(feat.image_ref, feat.flatten)
                               ELSE calcHist(feat.image_ref),
                   !.pc = "done"]
    /\ UNCHANGED <<histVars, jacVars, fsVars, clVars, evVars, dsVars, ssim, par>>

\* The caller hands what compute_jacobians returned to
\* compute_jacobians_dist_matrix.
JacCall ==
    /\ feat.fn = "compute_jacobians"
    /\ feat.pc = "done"
    /\ jac_pc = "off"
    /\ jacobians' = feat.out
    /\ jacobian_image_ref' = feat.ref_out
    /\ combine' \in CombineValues
    /\ jac_pc' = "idle"
    /\ UNCHANGED <<jac_matrix, jac_i, jac_j, jac_calls, jac_error>>
    /\ UNCHANGED <<histVars, fsVars, clVars, evVars, dsVars, feat, ssim, par>>

FeatNext == FeatRaise \/ FeatEnter \/ FeatImage \/ FeatReturn \/ JacCall \/ JacNext

\* No pair task runs.
ParIdle == par = [pc |-> "off", matrix |-> <<>>, status |-> <<>>, writes |-> <<>>]

-----------------------------------------------------------------------------
(* The pair tasks of an engine: one task per pass of the inner loop body,   *)
(* run in any order over one matrix allocated beforehand.                   *)

\* The passes of "for i in range(n): for j in range(i+1, n)" from the pair p
\* on, in the order of the loop, 0-based.
RECURSIVE PairsFrom(_, _)
PairsFrom(p, n) ==
    IF p[1] >= n THEN <<>> ELSE <<p>> \o PairsFrom(NextPair(p[1], p[2], n), n)

\* All passes of the two loops.
LoopPairs(n) == PairsFrom(FirstPair(n), n)

\* The engine whose loop is taken apart.
ParEngine ==
    IF hist_pc # "off" THEN "hist" ELSE IF jac_pc # "off" THEN "jac" ELSE "ssim"

\* The list the engine was called with.
ParInputs ==
    CASE ParEngine = "hist" -> histograms
      [] ParEngine = "jac" -> jacobians
      [] ParEngine = "ssim" -> ssim.fragments

\* Where the engine's own, sequential call is.
SequentialPc ==
    CASE ParEngine = "hist" -> hist_pc
      [] ParEngine = "jac" -> jac_pc
      [] ParEngine = "ssim" -> ssim.pc

\* The matrix of the engine's own, sequential call.
SequentialMatrix ==
    CASE ParEngine = "hist" -> distance_matrix
      [] ParEngine = "jac" -> jac_matrix
      [] ParEngine = "ssim" -> ssim.ssim_scores

\* np.zeros((n, n)), or np.ones((n, n)) in the SSIM engines
Allocated(n) == IF ParEngine = "ssim" THEN Ones(n) ELSE Zeros(n)

\* The loop body raises for the pair (i, j), 1-based.
PairRaises(i, j) ==
    CASE ParEngine = "hist" -> FALSE
      [] ParEngine = "jac" ->
            \/ ~Subscriptable(jacobians[i])
            \/ ~Subscriptable(jacobians[j])
            \/ jacobian_image_ref # NoRef /\ ~Subscriptable(jacobian_image_ref)
      [] ParEngine = "ssim" -> ~SsimDefined(ssim.fragments[i], ssim.fragments[j])

\* The value the loop body computes for the pair (i, j), 1-based.
PairValue(i, j) ==
    CASE ParEngine = "hist" -> HistPairDistance(histograms, histogram_image_ref, i, j)
      [] ParEngine = "jac" ->
            JacPairDistance(jacobians, jacobian_image_ref, combine, i, j)
      [] ParEngine = "ssim" ->
            SsimScore(ssim.fragments[i], ssim.fragments[j], ssim.fn)

\* The second write sent to column 1 of row j
PairWritesShared(i, j, d) == <<<<i, j, d>>, <<j, 1, d>>>>

\* The writes of one pass of the loop body, in the order of the code:
\* matrix[i, j] = d; matrix[j, i] = d
PairWrites(i, j, d) == <<<<i, j, d>>, <<j, i, d>>>>

\* The writes of task k, the k-th pass of the loops.
TaskWrites(k) ==
    LET p == LoopPairs(Len(ParInputs))[k]
    IN  PairWrites(p[1] + 1, p[2] + 1, PairValue(p[1] + 1, p[2] + 1))

\* Histograms, fields and fragments the pair tasks are run on.
ParHistPool == {h \in HistPool : h[1] = 0 /\ h[NBins] = BinOne}

ParJacPool == {J \in JacPool : J[1] = J[2] /\ J[1][1] = J[1][2]}

ParFragmentPool ==
    {f \in FragmentPool : f.color = "black" \/ (f.color = "white" /\ f.shape[1] >= 7)}

ParWaiting == par = [pc |-> "idle", matrix |-> <<>>, status |-> <<>>, writes |-> <<>>]

\* A call of the histogram engine is about to be made; its pair tasks wait.
ParHistInit ==
    /\ histograms \in ListsOf(ParHistPool, MaxN)
    /\ histogram_image_ref \in ParHistPool \cup {NoRef}
    /\ distance_matrix = <<>>
    /\ hist_i = 0
    /\ hist_j = 0
    /\ hist_pc = "idle"
    /\ JacIdle /\ SsimIdle /\ ParWaiting

\* A call of the gradient engine is about to be made; its pair tasks wait.
ParJacInit ==
    /\ jacobians \in ListsOf(ParJacPool, MaxN)
    /\ jacobian_image_ref \in ParJacPool \cup {NoRef}
    /\ combine \in CombineValues
    /\ jac_matrix = <<>>
    /\ jac_i = 0
    /\ jac_j = 0
    /\ jac_calls = 0
    /\ jac_pc = "idle"
    /\ jac_error = "none"
    /\ HistIdle /\ SsimIdle /\ ParWaiting

\* A call of an SSIM engine is about to be made; its pair tasks wait.
ParSsimInit ==
    /\ \E fn \in {"gray", "hsv"}, fragments \in ListsOf(ParFragmentPool, MaxN) :
          ssim = [fn |-> fn, fragments |-> fragments, ssim_scores |-> <<>>, i |-> 0,
                  j |-> 0, pc |-> "idle", error |-> "none"]
    /\ HistIdle /\ JacIdle /\ ParWaiting

\* The sequential call has ended, in or after its loops: the shared matrix
\* is allocated and one task per pass of the loops is made.  What a task
\* writes depends on the arguments of the call only, and is kept in writes.
ParStart ==
    /\ par.pc = "idle"
    /\ SequentialPc \in {"done", "raised"}
    /\ ~(ParEngine = "jac" /\ jac_error = "ValueError")
    /\ par' = [pc |-> "run",
               matrix |-> Allocated(Len(ParInputs)),
               status |-> [k \in 1..Len(LoopPairs(Len(ParInputs))) |-> 0],
               writes |-> [k \in 1..Len(LoopPairs(Len(ParInputs))) |-> TaskWrites(k)]]
    /\ UNCHANGED <<histVars, jacVars, fsVars, clVars, evVars, dsVars, feat, ssim>>

\* Task k does its next write.
ParWrite(k) ==
    /\ par.pc = "run"
    /\ par.status[k] >= 0
    /\ par.status[k] < Len(par.writes[k])
    /\ LET p == LoopPairs(Len(ParInputs))[k]
           w == par.writes[k][par.status[k] + 1]
       IN  /\ ~PairRaises(p[1] + 1, p[2] + 1)
           /\ par' = [par EXCEPT !.matrix[w[1]][w[2]] = w[3],
                                 !.status[k] = @ + 1]
    /\ UNCHANGED <<histVars, jacVars, fsVars, clVars, evVars, dsVars, feat, ssim>>

\* Task k raises before it writes anything.
ParTaskRaise(k) ==
    /\ par.pc = "run"
    /\ par.status[k] = 0
    /\ LET p == LoopPairs(Len(ParInputs))[k]
       IN  PairRaises(p[1] + 1, p[2] + 1)
    /\ par' = [par EXCEPT !.status[k] = -1]
    /\ UNCHANGED <<histVars, jacVars, fsVars, clVars, evVars, dsVars, feat, ssim>>

\* Task k has done all its writes.
TaskDone(k) == par.status[k] = Len(par.writes[k])

\* Every task has ended.
ParJoin ==
    /\ par.pc = "run"
    /\ \A k \in DOMAIN par.status : par.status[k] = -1 \/ TaskDone(k)
    /\ par' = [par EXCEPT !.pc = IF \E k \in DOMAIN par.status : par.status[k] = -1
                                 THEN "raised" ELSE "done"]
    /\ UNCHANGED <<histVars, jacVars, fsVars, clVars, evVars, dsVars, feat, ssim>>

ParTasks ==
    \/ \E k \in DOMAIN par.status : ParWrite(k)
    \/ \E k \in DOMAIN par.status : ParTaskRaise(k)

ParNext == ParStart \/ ParTasks \/ ParJoin \/ HistNext \/ JacNext \/ SsimNext

-----------------------------------------------------------------------------
(* Strings: a file name or an extension is a sequence of characters *)

\* str.lower() of one character
LowerChar(c) ==
    CASE c = "P" -> "p"
      [] c = "N" -> "n"
      [] c = "G" -> "g"
      [] c = "A" -> "a"
      [] OTHER -> c

\* s.lower()
Lower(s) == [k \in 1..Len(s) |-> LowerChar(s[k])]

\* s.endswith(suffix)
EndsWith(s, suffix) ==
    /\ Len(suffix) <= Len(s)
    /\ SubSeq(s, Len(s) - Len(suffix) + 1, Len(s)) = suffix

\* The extension test of create_dataset and of utils' create_cluster_dirs:
\* filename.lower().endswith(img_ext)
ExtMatches(filename, ext) == EndsWith(Lower(filename), ext)

png == <<"p", "n", "g">>

a_png == <<"a", ".", "p", "n", "g">>

b_png == <<"b", ".", "p", "n", "g">>

n_txt == <<"n", ".", "t", "x", "t">>

-----------------------------------------------------------------------------
(* File system *)

\* os.path.join(dir, name) of a file
FilePath(dir, name) == [dir |-> dir, name |-> name]

\* os.path.exists(path) for the path of a file
FileExists(files, path) == \E f \in files : f.dir = path.dir /\ f.name = path.name

ContentOf(files, path) ==
    (CHOOSE f \in files : f.dir = path.dir /\ f.name = path.name).content

IsPrefix(p, q) == Len(p) <= Len(q) /\ SubSeq(q, 1, Len(p)) = p

\* os.makedirs(dir, exist_ok=True)
Makedirs(dirs, dir) == dirs \cup {SubSeq(dir, 1, k) : k \in 1..Len(dir)}

\* shutil.rmtree(dir): what is left of the directories and of the files
RmtreeDirs(dirs, dir) == {d \in dirs : ~IsPrefix(dir, d)}

RmtreeFiles(files, dir) == {f \in files : ~IsPrefix(dir, f.dir)}

\* shutil.move(src, dst) in the place of shutil.copy
MoveFile(files, src, dst) ==
    {f \in files : ~(f.dir = dst.dir /\ f.name = dst.name)
                   /\ ~(f.dir = src.dir /\ f.name = src.name)}
      \cup {[dir |-> dst.dir, name |-> dst.name, content |-> ContentOf(files, src)]}

\* shutil.copy(src, dst): dst is created or overwritten with src's content
CopyFile(files, src, dst) ==
    {f \in files : ~(f.dir = dst.dir /\ f.name = dst.name)}
      \cup {[dir |-> dst.dir, name |-> dst.name, content |-> ContentOf(files, src)]}

\* The names os.listdir(dir) returns (files only; the model's directories
\* that are listed hold no subdirectories)
ListdirNames(files, dir) == {f.name : f \in {g \in files : g.dir = dir}}

\* The orders in which os.listdir may return a set of names
Orderings(S) ==
    {o \in [1..Cardinality(S) -> S] : \A x \in S : \E k \in 1..Cardinality(S) : o[k] = x}

RECURSIVE FilterCaseSensitive(_, _)
\* The filter with the test filename.endswith(img_ext), the name not lowered
FilterCaseSensitive(listing, ext) ==
    IF listing = <<>> THEN <<>>
    ELSE IF EndsWith(Head(listing), ext)
         THEN <<Head(listing)>> \o FilterCaseSensitive(Tail(listing), ext)
         ELSE FilterCaseSensitive(Tail(listing), ext)

RECURSIVE FilterByExt(_, _)
\* The names of a listing that pass the extension test, in the listing's order
FilterByExt(listing, ext) ==
    IF listing = <<>> THEN <<>>
    ELSE IF ExtMatches(Head(listing), ext)
         THEN <<Head(listing)>> \o FilterByExt(Tail(listing), ext)
         ELSE FilterByExt(Tail(listing), ext)

-----------------------------------------------------------------------------
(* Cluster materializer: create_cluster_dirs *)

DataDir == <<"data">>

OtherDir == <<"other">>

OutputDir == <<"out">>

Labels == {-1, 0, 1}

\* "unclustered" if label == -1 else f"cluster_{label}"
ClusterDirName(label) ==
    CASE label = -1 -> "unclustered"
      [] label = 0 -> "cluster_0"
      [] label = 1 -> "cluster_1"
      [] label = 2 -> "cluster_2"

\* os.path.join(output_dir, ...)
ClusterDir(label) == OutputDir \o <<ClusterDirName(label)>>

\* The fragments on disk before the call.
SourceFiles ==
    {[dir |-> DataDir, name |-> a_png, content |-> 1],
     [dir |-> DataDir, name |-> b_png, content |-> 2],
     [dir |-> DataDir, name |-> n_txt, content |-> 3],
     [dir |-> OtherDir, name |-> a_png, content |-> 4]}

\* What an earlier run left in output_dir.
StaleFiles == {[dir |-> ClusterDir(0), name |-> a_png, content |-> 5]}

\* The paths a caller of main's create_cluster_dirs passes: fragments, one of
\* them with the name of another, and a path inside output_dir.
CandidatePaths ==
    {FilePath(DataDir, a_png), FilePath(DataDir, b_png),
     FilePath(OtherDir, a_png), FilePath(ClusterDir(0), a_png)}

ClIdle ==
    /\ fs_dirs = {}
    /\ fs_files = {}
    /\ fs_dirs0 = {}
    /\ fs_files0 = {}
    /\ fragment_paths = <<>>
    /\ labels = <<>>
    /\ cl_impl = "main"
    /\ cl_idx = 0
    /\ cl_pc = "off"
    /\ cl_error = "none"

\* A call of create_cluster_dirs is about to be made; output_dir exists with
\* the files of an earlier run, or does not exist.
ClInit ==
    /\ \E existed \in BOOLEAN :
         /\ fs_dirs = {DataDir, OtherDir}
                        \cup (IF existed THEN {OutputDir, ClusterDir(0)} ELSE {})
         /\ fs_files = SourceFiles \cup (IF existed THEN StaleFiles ELSE {})
    /\ fs_dirs0 = fs_dirs
    /\ fs_files0 = fs_files
    /\ cl_impl \in {"main", "utils"}
    /\ fragment_paths \in (IF cl_impl = "main" THEN ListsOf(CandidatePaths, MaxFrag)
                           ELSE {<<>>})
    /\ labels \in ListsOf(Labels, MaxFrag)
    /\ cl_idx = 0
    /\ cl_pc = "idle"
    /\ cl_error = "none"

\* os.makedirs(output_dir, exist_ok=True)
ClMakedirs ==
    /\ cl_pc = "idle"
    /\ fs_dirs' = Makedirs(fs_dirs, OutputDir)
    /\ cl_pc' = "rmtree"
    /\ UNCHANGED <<fs_files, fs_dirs0, fs_files0, fragment_paths, labels, cl_impl,
                   cl_idx, cl_error>>
    /\ UNCHANGED <<histVars, jacVars, evVars, dsVars, feat, ssim, par>>

\* if os.path.exists(output_dir): shutil.rmtree(output_dir)
ClRmtree ==
    /\ cl_pc = "rmtree"
    /\ fs_dirs' = (IF OutputDir \in fs_dirs THEN RmtreeDirs(fs_dirs, OutputDir) ELSE fs_dirs)
    /\ fs_files' = (IF OutputDir \in fs_dirs THEN RmtreeFiles(fs_files, OutputDir)
                    ELSE fs_files)
    /\ cl_pc' = (IF cl_impl = "utils" THEN "list" ELSE "loop")
    /\ UNCHANGED <<fs_dirs0, fs_files0, fragment_paths, labels, cl_impl, cl_idx, cl_error>>
    /\ UNCHANGED <<histVars, jacVars, evVars, dsVars, feat, ssim, par>>

\* os.listdir of a directory that an earlier call listed and nothing has
\* changed since returns the names in the order of the earlier listing: two
\* names that both listings hold come in the same order.
SameOrder(listing, earlier) ==
    \A k, m \in 1..Len(listing) : \A x, y \in 1..Len(earlier) :
        (listing[k] = earlier[x] /\ listing[m] = earlier[y] /\ k < m) => x < y

\* The img_ext argument of utils' create_cluster_dirs: its default "png", or
\* the extension the caller gave create_dataset before.
ClImgExt == IF ds_pc = "off" THEN png ELSE img_ext

\* utils only: filename_images = the names of os.listdir(data_dir), in the
\* order listdir gives them, that pass the extension test
ClListdir ==
    /\ cl_pc = "list"
    /\ \E listing \in Orderings(ListdirNames(fs_files, DataDir)) :
         /\ SameOrder(listing, ds_listing)
         /\ LET filename_images == FilterByExt(listing, ClImgExt)
            IN  fragment_paths' = [k \in 1..Len(filename_images) |->
                                      FilePath(DataDir, filename_images[k])]
    /\ cl_pc' = "loop"
    /\ UNCHANGED <<fs_dirs, fs_files, fs_dirs0, fs_files0, labels, cl_impl, cl_idx, cl_error>>
    /\ UNCHANGED <<histVars, jacVars, evVars, dsVars, feat, ssim, par>>

\* One pass of "for idx, label in enumerate(labels)": the cluster directory is
\* made, then fragment_paths[idx] is read and the file copied.
ClCopy ==
    /\ cl_pc = "loop"
    /\ cl_idx < Len(labels)
    /\ LET cluster_dir == ClusterDir(labels[cl_idx + 1])
       IN  /\ fs_dirs' = Makedirs(fs_dirs, cluster_dir)
           /\ IF cl_idx + 1 > Len(fragment_paths)
              THEN /\ cl_pc' = "raised"
                   /\ cl_error' = "IndexError"
                   /\ UNCHANGED <<fs_files, cl_idx>>
              ELSE LET src == fragment_paths[cl_idx + 1]
                       dst == FilePath(cluster_dir, src.name)
                   IN  IF ~FileExists(fs_files, src)
                       THEN /\ cl_pc' = "raised"
                            /\ cl_error' = "FileNotFoundError"
                            /\ UNCHANGED <<fs_files, cl_idx>>
                       ELSE IF src = dst
                       THEN /\ cl_pc' = "raised"
                            /\ cl_error' = "SameFileError"
                            /\ UNCHANGED <<fs_files, cl_idx>>
                       ELSE /\ fs_files' = CopyFile(fs_files, src, dst)
                            /\ cl_idx' = cl_idx + 1
                            /\ UNCHANGED <<cl_pc, cl_error>>
    /\ UNCHANGED <<fs_dirs0, fs_files0, fragment_paths, labels, cl_impl>>
    /\ UNCHANGED <<histVars, jacVars, evVars, dsVars, feat, ssim, par>>

\* The loop is over: the function returns None.
ClReturn ==
    /\ cl_pc = "loop"
    /\ cl_idx >= Len(labels)
    /\ cl_pc' = "done"
    /\ UNCHANGED <<fs_dirs, fs_files, fs_dirs0, fs_files0, fragment_paths, labels, cl_impl,
                   cl_idx, cl_error>>
    /\ UNCHANGED <<histVars, jacVars, evVars, dsVars, feat, ssim, par>>

ClNext == ClMakedirs \/ ClRmtree \/ ClListdir \/ ClCopy \/ ClReturn

-----------------------------------------------------------------------------
(* Evaluation module *)

\* A Python number that is a ratio of two counts, or the exception raised in
\* its place.
RECURSIVE GCD(_, _)
GCD(a, b) == IF b = 0 THEN a ELSE GCD(b, a % b)

\* n / d for d > 0, in lowest terms
Ratio(n, d) == [err |-> "none", n |-> n \div GCD(n, d), d |-> d \div GCD(n, d)]

Raised(e) == [err |-> e, n |-> 0, d |-> 1]

Zero == Ratio(0, 1)

One == Ratio(1, 1)

RLess(a, b) == a.n * b.d < b.n * a.d

RECURSIVE SplitFrom(_, _, _)
SplitFrom(s, sep, cur) ==
    IF s = <<>> THEN <<cur>>
    ELSE IF Head(s) = sep THEN <<cur>> \o SplitFrom(Tail(s), sep, <<>>)
    ELSE SplitFrom(Tail(s), sep, Append(cur, Head(s)))

\* s.split(sep)
Split(s, sep) == SplitFrom(s, sep, <<>>)

\* str(reference_image_id)
IdStr(id) == CASE id = 1 -> <<"1">> [] id = 2 -> <<"2">>

dot_png == <<".", "p", "n", "g">>

\* The two tests of every counting loop: the file passes
\* "if not filename.endswith(ext): continue" ...
HasExt(name, ext) == EndsWith(name, ext)

\* ... and filename.split(".")[1] == str(reference_image_id)
IsReference(name, id) == Split(name, ".")[2] = IdStr(id)

RootDir == <<"root">>

\* os.path.basename(dirpath)
Basename(dir) == dir[Len(dir)]

\* The subdirectories listed in dir
Subdirs(dirs, dir) == {d \in dirs : Len(d) = Len(dir) + 1 /\ IsPrefix(dir, d)}

FilesIn(files, dir) == {f \in files : f.dir = dir}

\* The directories os.walk(top) yields when the directories named in
\* excluded are removed from dirnames at every level; none when top does not
\* exist.
Walk(dirs, top, excluded) ==
    {d \in dirs : /\ top \in dirs
                  /\ IsPrefix(top, d)
                  /\ \A k \in (Len(top) + 1)..Len(d) : d[k] \notin excluded}

\* The files of the directories of a walk that pass the extension test
Scanned(dirs, files, top, excluded, ext) ==
    {f \in files : f.dir \in Walk(dirs, top, excluded) /\ HasExt(f.name, ext)}

\* precision with the entries that fail the extension test left out of the
\* divisor
precision_of_filtered(dirs, files, id, cluster_dir, ext) ==
    LET kept == {f \in FilesIn(files, cluster_dir) : HasExt(f.name, ext)}
        tp   == Cardinality({f \in kept : IsReference(f.name, id)})
    IN  IF kept # {} THEN Ratio(tp, Cardinality(kept)) ELSE Zero

\* main: precision(reference_image_id, cluster_dir, ext)
precision(dirs, files, id, cluster_dir, ext) ==
    LET filenames == Cardinality(FilesIn(files, cluster_dir))
                       + Cardinality(Subdirs(dirs, cluster_dir))
        tp == Cardinality({f \in FilesIn(files, cluster_dir) :
                              HasExt(f.name, ext) /\ IsReference(f.name, id)})
    IN  IF filenames # 0 THEN Ratio(tp, filenames) ELSE Zero

\* utils: precision(reference_image_id, cluster_dir, ext)
utils_precision(dirs, files, id, cluster_dir, ext) ==
    LET total == Cardinality(FilesIn(files, cluster_dir))
                   + Cardinality(Subdirs(dirs, cluster_dir))
        tp == Cardinality({f \in FilesIn(files, cluster_dir) :
                              HasExt(f.name, ext) /\ IsReference(f.name, id)})
    IN  IF total = 0 THEN Raised("ZeroDivisionError") ELSE Ratio(tp, total)

\* The sum of count(c) over the cluster directories named in a set
RECURSIVE SumOver(_, _, _, _, _, _)
SumOver(names, dirs, files, id, ext, positive) ==
    IF names = {} THEN 0
    ELSE LET c == CHOOSE x \in names : TRUE
             scanned == Scanned(dirs, files, RootDir \o <<c>>, {}, ext)
         IN  Cardinality({f \in scanned : IsReference(f.name, id) = positive})
               + SumOver(names \ {c}, dirs, files, id, ext, positive)

\* main: recall_in_out_clusters(reference_image_id, root_dir, cluster_dirs_exp, ext)
recall_in_out_clusters(dirs, files, id, cluster_dirs_exp, ext) ==
    LET tp == SumOver(cluster_dirs_exp, dirs, files, id, ext, TRUE)
        fn == Cardinality({f \in Scanned(dirs, files, RootDir, cluster_dirs_exp, ext) :
                              IsReference(f.name, id)})
        total == tp + fn
    IN  IF total # 0 THEN Ratio(tp, total) ELSE Zero

\* main: accuracy_in_out_clusters(reference_image_id, root_dir, cluster_dirs, ext)
accuracy_in_out_clusters(dirs, files, id, cluster_dirs, ext) ==
    LET tp == SumOver(cluster_dirs, dirs, files, id, ext, TRUE)
        fp == SumOver(cluster_dirs, dirs, files, id, ext, FALSE)
        out == Scanned(dirs, files, RootDir, cluster_dirs, ext)
        fn == Cardinality({f \in out : IsReference(f.name, id)})
        tn == Cardinality({f \in out : ~IsReference(f.name, id)})
        total == tp + fn + fp + tn
    IN  IF total # 0 THEN Ratio(tp + tn, total) ELSE Zero

\* utils: recall(reference_image_id, root_dir, cluster_dir_exp, ext)
utils_recall(dirs, files, id, cluster_dir_exp, ext) ==
    LET scanned == Scanned(dirs, files, RootDir, {cluster_dir_exp}, ext)
        tp == Cardinality({f \in scanned : IsReference(f.name, id)})
        total == Cardinality(scanned)
    IN  IF total = 0 THEN Raised("ZeroDivisionError") ELSE Ratio(tp, total)

\* 2 * (p * r) / (p + r) for p + r # 0
HarmonicMean(p, r) == Ratio(2 * p.n * r.n, p.n * r.d + r.n * p.d)

\* main: f1(precision_score, recall_score)
f1(p, r) == IF p.n * r.d + r.n * p.d = 0 THEN Zero ELSE HarmonicMean(p, r)

\* utils: f1(precision_score, recall_score)
utils_f1(p, r) ==
    IF p.n * r.d + r.n * p.d = 0 THEN Raised("ZeroDivisionError") ELSE HarmonicMean(p, r)

\* The value of scores[dirp] computed at dirpath
ScoreRecord(dirs, files, id, dirpath, ext) ==
    LET dirp == Basename(dirpath)
        precision_score == precision(dirs, files, id, dirpath, ext)
        recall_score == recall_in_out_clusters(dirs, files, id, {dirp}, ext)
    IN  [precision |-> precision_score,
         recall    |-> recall_score,
         f1        |-> f1(precision_score, recall_score),
         accuracy  |-> accuracy_in_out_clusters(dirs, files, id, {dirp}, ext)]

\* The orders in which os.walk(root_dir) may yield the directories, top down:
\* root_dir first, and every directory followed at once by all that is below it.
WalkOrders(dirs) ==
    {w \in Orderings(dirs) :
        /\ w[1] = RootDir
        /\ \A k \in 1..Len(w) : \A m \in (k + 1)..Len(w) :
              IsPrefix(w[k], w[m]) => \A x \in k..m : IsPrefix(w[k], w[x])}

\* The directories for which the loop of compute_in_out_metrics makes an
\* entry: all but the first that os.walk yields.
ScoredDirs(dirs) == dirs \ {RootDir}

\* The immediate subdirectories only
ImmediateSubdirs(dirs) == Subdirs(dirs, RootDir)

\* The scores dict after the loop over the walk w: a later directory of the
\* same basename replaces the entry of an earlier one.
Scores(dirs, files, id, ext, w) ==
    LET scored == {k \in 1..Len(w) : w[k] \in ScoredDirs(dirs)}
        keys   == {Basename(w[k]) : k \in scored}
        last(b) == CHOOSE k \in scored :
                      /\ Basename(w[k]) = b
                      /\ \A m \in scored : Basename(w[m]) = b => m <= k
    IN  [b \in keys |-> ScoreRecord(dirs, files, id, w[last(b)], ext)]

\* max_items: the entries whose metric equals the largest
MaxItems(scores, metric) ==
    {<<b, scores[b][metric]>> : b \in
        {c \in DOMAIN scores : \A e \in DOMAIN scores : ~RLess(scores[c][metric], scores[e][metric])}}

\* main: compute_in_out_metrics(reference_image_id, root_dir, ext, metric);
\* max() of an empty dict raises ValueError
compute_in_out_metrics(dirs, files, id, ext, metric, w) ==
    LET scores == Scores(dirs, files, id, ext, w)
    IN  IF DOMAIN scores = {}
        THEN [err |-> "ValueError", scores |-> scores, max_items |-> {}]
        ELSE [err |-> "none", scores |-> scores, max_items |-> MaxItems(scores, metric)]

Metrics == {"precision", "recall", "f1", "accuracy"}

Ids == {1}

\* Values f1 is called with
SampleScores == {Zero, Ratio(1, 2), One}

\* The directories a tree may hold below root_dir: two clusters, and inside
\* the first a directory with the name of the second.
TreeDirs == {RootDir \o <<"cluster_0">>, RootDir \o <<"cluster_1">>,
             RootDir \o <<"cluster_0", "cluster_1">>}

\* File names: <fragment>.<source_id>.png, and one with another extension
TreeNames == {<<"0", ".", "1", ".", "p", "n", "g">>,
              <<"d", ".", "1", ".", "p", "n", "g">>,
              <<"0", ".", "2", ".", "p", "n", "g">>,
              <<"0", ".", "1", ".", "j", "p", "g">>}

NoCall == [fn |-> "none"]

EvIdle ==
    /\ ev_dirs = {}
    /\ ev_files = {}
    /\ ev_out = [fn |-> "off"]

\* A tree under root_dir is on disk.
EvInit ==
    /\ ev_dirs \in {ds \cup {RootDir} : ds \in {x \in SUBSET TreeDirs :
                       \A d \in x : Len(d) > 2 => SubSeq(d, 1, Len(d) - 1) \in x}}
    /\ ev_files \in {fs \in SUBSET [dir : ev_dirs, name : TreeNames] :
                        Cardinality(fs) <= MaxTreeFiles}
    /\ ev_out = NoCall

EvPrecision ==
    /\ ev_out = NoCall
    /\ \E id \in Ids, d \in ev_dirs :
         ev_out' = [fn |-> "precision", id |-> id, dir |-> d,
                    main |-> precision(ev_dirs, ev_files, id, d, dot_png),
                    utils |-> utils_precision(ev_dirs, ev_files, id, d, dot_png)]
    /\ UNCHANGED <<ev_dirs, ev_files>>
    /\ UNCHANGED <<histVars, jacVars, fsVars, clVars, dsVars, feat, ssim, par>>

\* recall of one cluster directory of root_dir
EvRecall ==
    /\ ev_out = NoCall
    /\ \E id \in Ids, d \in ImmediateSubdirs(ev_dirs) :
         ev_out' = [fn |-> "recall", id |-> id, dir |-> d,
                    main |-> recall_in_out_clusters(ev_dirs, ev_files, id, {Basename(d)}, dot_png),
                    utils |-> utils_recall(ev_dirs, ev_files, id, Basename(d), dot_png)]
    /\ UNCHANGED <<ev_dirs, ev_files>>
    /\ UNCHANGED <<histVars, jacVars, fsVars, clVars, dsVars, feat, ssim, par>>

EvF1 ==
    /\ ev_out = NoCall
    /\ \E p, r \in SampleScores :
         ev_out' = [fn |-> "f1", p |-> p, r |-> r,
                    main |-> f1(p, r), utils |-> utils_f1(p, r)]
    /\ UNCHANGED <<ev_dirs, ev_files>>
    /\ UNCHANGED <<histVars, jacVars, fsVars, clVars, dsVars, feat, ssim, par>>

EvMetrics ==
    /\ ev_out = NoCall
    /\ \E id \in Ids, metric \in Metrics, w \in WalkOrders(ev_dirs) :
         ev_out' = [fn |-> "compute_in_out_metrics", id |-> id, metric |-> metric,
                    main |-> compute_in_out_metrics(ev_dirs, ev_files, id, dot_png, metric, w)]
    /\ UNCHANGED <<ev_dirs, ev_files>>
    /\ UNCHANGED <<histVars, jacVars, fsVars, clVars, dsVars, feat, ssim, par>>

EvNext == EvPrecision \/ EvRecall \/ EvF1 \/ EvMetrics

-----------------------------------------------------------------------------
(* Dataset builder: create_dataset *)

\* Entries of img_dir: the extension in lower, upper and mixed case, another
\* extension, and a name that is the extension and nothing else.
DirNames == {a_png,
             <<"a", ".", "P", "N", "G">>,
             <<"A", ".", "p", "N", "g">>,
             n_txt,
             png}

\* Values of the img_ext argument
ExtArgs == {png, <<"P", "N", "G">>, <<"P", "n", "g">>, dot_png}

\* The sequences without repetition of at most n elements of S
Listings(S, n) ==
    {l \in ListsOf(S, n) : \A k, m \in 1..Len(l) : k # m => l[k] # l[m]}

\* What the loop body of create_dataset appends for a file: the image read
\* from it (cropping and denoising are external).
ImageOf(filename) == [file |-> filename]

DsIdle ==
    /\ ds_exists = FALSE
    /\ ds_listing = <<>>
    /\ img_ext = <<>>
    /\ images = <<>>
    /\ ds_k = 0
    /\ ds_pc = "off"

\* A call create_dataset(img_dir, img_ext) is about to be made.
DsInit ==
    /\ ds_exists \in BOOLEAN
    /\ ds_listing \in (IF ds_exists THEN Listings(DirNames, MaxDirFiles) ELSE {<<>>})
    /\ img_ext \in ExtArgs
    /\ images = <<>>
    /\ ds_k = 0
    /\ ds_pc = "idle"

\* if not os.path.exists(img_dir): raise ValueError(...)
DsRaise ==
    /\ ds_pc = "idle"
    /\ ~ds_exists
    /\ ds_pc' = "raised"
    /\ UNCHANGED <<ds_exists, ds_listing, img_ext, images, ds_k>>
    /\ UNCHANGED <<histVars, jacVars, fsVars, clVars, evVars, feat, ssim, par>>

\* images = []
DsEnter ==
    /\ ds_pc = "idle"
    /\ ds_exists
    /\ ds_pc' = "loop"
    /\ UNCHANGED <<ds_exists, ds_listing, img_ext, images, ds_k>>
    /\ UNCHANGED <<histVars, jacVars, fsVars, clVars, evVars, feat, ssim, par>>

\* One pass of "for filename in os.listdir(img_dir)"
DsFile ==
    /\ ds_pc = "loop"
    /\ ds_k < Len(ds_listing)
    /\ images' = (IF ExtMatches(ds_listing[ds_k + 1], img_ext)
                  THEN Append(images, ImageOf(ds_listing[ds_k + 1]))
                  ELSE images)
    /\ ds_k' = ds_k + 1
    /\ UNCHANGED <<ds_exists, ds_listing, img_ext, ds_pc>>
    /\ UNCHANGED <<histVars, jacVars, fsVars, clVars, evVars, feat, ssim, par>>

\* return images
DsReturn ==
    /\ ds_pc = "loop"
    /\ ds_k >= Len(ds_listing)
    /\ ds_pc' = "done"
    /\ UNCHANGED <<ds_exists, ds_listing, img_ext, images, ds_k>>
    /\ UNCHANGED <<histVars, jacVars, fsVars, clVars, evVars, feat, ssim, par>>

DsNext == DsRaise \/ DsEnter \/ DsFile \/ DsReturn

-----------------------------------------------------------------------------
(* The pipeline: create_dataset(data_dir, img_ext), then utils'            *)
(* create_cluster_dirs(data_dir, output_dir, labels, img_ext)              *)

\* Entries of data_dir in the pipeline.
PipeNames == {a_png, b_png, <<"A", ".", "p", "N", "g">>, n_txt}

\* What a file of data_dir holds: a number of its own.
PipeContent(name) ==
    CASE name = a_png -> 1
      [] name = b_png -> 2
      [] name = n_txt -> 3
      [] OTHER -> 4

\* data_dir with its files in listing order, and create_dataset about to be
\* called on it; create_cluster_dirs has not been called yet.
PipeInit ==
    /\ ds_exists \in BOOLEAN
    /\ ds_listing \in (IF ds_exists THEN Listings(PipeNames, MaxPipeFiles) ELSE {<<>>})
    /\ img_ext \in ExtArgs
    /\ images = <<>>
    /\ ds_k = 0
    /\ ds_pc = "idle"
    /\ fs_dirs = (IF ds_exists THEN {DataDir} ELSE {})
    /\ fs_files = {[dir |-> DataDir, name |-> ds_listing[k],
                    content |-> PipeContent(ds_listing[k])] : k \in 1..Len(ds_listing)}
    /\ fs_dirs0 = fs_dirs
    /\ fs_files0 = fs_files
    /\ fragment_paths = <<>>
    /\ labels = <<>>
    /\ cl_impl = "utils"
    /\ cl_idx = 0
    /\ cl_pc = "wait"
    /\ cl_error = "none"

\* The caller clusters the images and calls create_cluster_dirs with the
\* labels it got.
PipeCall ==
    /\ ds_pc = "done"
    /\ cl_pc = "wait"
    /\ labels' \in ListsOf(Labels, MaxFrag)
    /\ cl_pc' = "idle"
    /\ UNCHANGED <<fs_dirs, fs_files, fs_dirs0, fs_files0, fragment_paths, cl_impl,
                   cl_idx, cl_error>>
    /\ UNCHANGED <<histVars, jacVars, evVars, dsVars, feat, ssim, par>>

PipeNext == DsNext \/ PipeCall \/ ClNext

-----------------------------------------------------------------------------
(* Specifications *)

InitHist == HistInit /\ JacIdle /\ ClIdle /\ EvIdle /\ DsIdle /\ FeatIdle /\ SsimIdle /\ ParIdle

InitJac == JacInit /\ HistIdle /\ ClIdle /\ EvIdle /\ DsIdle /\ FeatIdle /\ SsimIdle /\ ParIdle

InitCl == ClInit /\ HistIdle /\ JacIdle /\ EvIdle /\ DsIdle /\ FeatIdle /\ SsimIdle /\ ParIdle

InitEv == EvInit /\ HistIdle /\ JacIdle /\ ClIdle /\ DsIdle /\ FeatIdle /\ SsimIdle /\ ParIdle

InitDs == DsInit /\ HistIdle /\ JacIdle /\ ClIdle /\ EvIdle /\ FeatIdle /\ SsimIdle /\ ParIdle

InitPipe == PipeInit /\ HistIdle /\ JacIdle /\ EvIdle /\ FeatIdle /\ SsimIdle /\ ParIdle

InitSsim == SsimInit /\ HistIdle /\ JacIdle /\ ClIdle /\ EvIdle /\ DsIdle /\ FeatIdle /\ ParIdle

InitFeat == FeatInit /\ HistIdle /\ JacIdle /\ ClIdle /\ EvIdle /\ DsIdle /\ SsimIdle /\ ParIdle

InitEngines == InitHist \/ InitJac \/ InitSsim

NextEngines == HistNext \/ JacNext \/ SsimNext

\* compute_color_histogram_dist_matrix is called.
SpecHist == InitHist /\ [][HistNext]_vars

\* compute_jacobians_dist_matrix is called.
SpecJac == InitJac /\ [][JacNext]_vars

\* One of the engines is called.
SpecEngines == InitEngines /\ [][NextEngines]_vars

\* create_cluster_dirs is called, main's or utils'.
SpecCl == InitCl /\ [][ClNext]_vars

\* The evaluation functions are called on a tree.
SpecEv == InitEv /\ [][EvNext]_vars

\* create_dataset is called.
SpecDs == InitDs /\ [][DsNext]_vars

\* A feature extractor is called; the gradient fields go to their engine.
SpecFeat == InitFeat /\ [][FeatNext]_vars

\* create_dataset, then utils' create_cluster_dirs on the same directory.
SpecPipe == InitPipe /\ [][PipeNext]_vars

InitPar == (ParHistInit \/ ParJacInit \/ ParSsimInit) /\ ClIdle /\ EvIdle /\ DsIdle /\ FeatIdle

\* An engine is called, then its loop body is run as one task per pair.
SpecPar == InitPar /\ [][ParNext]_vars

-----------------------------------------------------------------------------
(* Claims *)

\* The intersection term of every fragment histogram is defined: its sum,
\* the divisor, is not 0.
ValidHistograms == \A k \in 1..Len(histograms) : HistSum(histograms[k]) > 0

\* C1: for every list of valid histograms, with or without a reference
\* histogram, the matrix returned by compute_color_histogram_dist_matrix has
\* M[i][j] == M[j][i] and M[i][j] >= 0 for all i, j.
C1_SymmetricNonNegative ==
    (hist_pc = "done" /\ ValidHistograms) =>
        \A i, j \in 1..Len(histograms) :
            /\ FEq(distance_matrix[i][j], distance_matrix[j][i])
            /\ FGe0(distance_matrix[i][j])

\* A matrix of three valid histograms and a reference has been returned, one
\* of whose pair measures was negative before the sign flip.
C1_Witness ==
    /\ hist_pc = "done"
    /\ ValidHistograms
    /\ Len(histograms) = 3
    /\ histogram_image_ref # NoRef
    /\ SignedSimilarity(histograms[1], histograms[2]) < 0
    /\ distance_matrix[1][2].v > 0
    /\ distance_matrix[2][3].v > 0

\* C4: compute_jacobians_dist_matrix called with a combine other than 'mean'
\* or 'median' raises ValueError before any pair distance is computed and
\* returns no matrix, whatever the list (empty and single-element included).
C4_InvalidCombineRaises ==
    (~(combine \in {"mean", "median"}) /\ jac_pc \notin {"off", "idle"}) =>
        /\ jac_pc = "raised"
        /\ jac_error = "ValueError"
        /\ jac_calls = 0
        /\ jac_matrix = <<>>

\* The call was made with an invalid combine and two gradient fields at
\* different distances, and has raised.
C4_Witness ==
    /\ combine = "invalid"
    /\ jac_pc = "raised"
    /\ Len(jacobians) = 2
    /\ jacobians[1] # jacobians[2]

\* The files under output_dir
Materialized == {f \in fs_files : IsPrefix(OutputDir, f.dir)}

\* C2: create_cluster_dirs called with a number of source files different from
\* the number of labels fails with a configuration error (ValueError),
\* whichever is longer; it copies nothing and does not return normally.
C2_MismatchRejected ==
    (cl_pc \in {"done", "raised"} /\ Len(fragment_paths) # Len(labels)) =>
        /\ cl_pc = "raised"
        /\ cl_error = "ValueError"
        /\ Materialized = {}

MatchingIn(dir, id) ==
    {f \in ev_files : f.dir = dir /\ EndsWith(f.name, dot_png)
                      /\ Split(f.name, ".")[2] = IdStr(id)}

\* The same in a directory and all below it
MatchingUnder(dir, id) ==
    {f \in ev_files : IsPrefix(dir, f.dir) /\ EndsWith(f.name, dot_png)
                      /\ Split(f.name, ".")[2] = IdStr(id)}

\* The entries os.listdir(dir) returns: files of any name, and subdirectories
EntryCount(dir) ==
    Cardinality({f \in ev_files : f.dir = dir})
      + Cardinality({d \in ev_dirs : Len(d) = Len(dir) + 1 /\ IsPrefix(dir, d)})

\* C3: every evaluation ratio whose denominator is zero evaluates to 0.0
\* instead of raising a division error: f1(0, 0) == 0.0, the precision of an
\* empty directory is 0, and recall is 0 when no scanned file matches the
\* source id.
C3_ZeroDenominatorIsZero ==
    /\ (ev_out.fn = "f1" /\ ev_out.p = Zero /\ ev_out.r = Zero) =>
          ev_out.main = Zero /\ ev_out.utils = Zero
    /\ (ev_out.fn = "precision" /\ EntryCount(ev_out.dir) = 0) =>
          ev_out.main = Zero /\ ev_out.utils = Zero
    /\ (ev_out.fn = "recall" /\ MatchingUnder(RootDir, ev_out.id) = {}) =>
          ev_out.main = Zero /\ ev_out.utils = Zero

C7_RecallOverWholeTree ==
    (ev_out.fn = "recall" /\ MatchingUnder(RootDir, ev_out.id) # {}) =>
        LET expected == Ratio(Cardinality(MatchingUnder(ev_out.dir, ev_out.id)),
                              Cardinality(MatchingUnder(RootDir, ev_out.id)))
        IN  ev_out.main = expected /\ ev_out.utils = expected

\* C8: compute_in_out_metrics returns a score table with one entry per
\* immediate subdirectory of root_dir and no other, and max_<metric> is the
\* set of those subdirectories whose metric is the largest of the table.
C8_OneEntryPerImmediateSubdir ==
    (ev_out.fn = "compute_in_out_metrics" /\ ImmediateSubdirs(ev_dirs) # {}) =>
        LET scores == ev_out.main.scores
            metric == ev_out.metric
        IN  /\ ev_out.main.err = "none"
            /\ DOMAIN scores = {d[Len(d)] : d \in ImmediateSubdirs(ev_dirs)}
            /\ ev_out.main.max_items =
                 {<<b, scores[b][metric]>> : b \in
                    {c \in DOMAIN scores :
                        \A e \in DOMAIN scores :
                           scores[e][metric].n * scores[c][metric].d
                             <= scores[c][metric].n * scores[e][metric].d}}

\* C10: create_dataset includes a file if and only if its name ends with the
\* extension when the two are compared without regard to case, whatever the
\* case of the file name and of the extension argument.
C10_ExtensionAnyCase ==
    ds_pc = "done" =>
        \A k \in 1..Len(ds_listing) :
            (\E m \in 1..Len(images) : images[m].file = ds_listing[k])
              <=> EndsWith(Lower(ds_listing[k]), Lower(img_ext))

\* 0.25*d + 0.5*di + 0.5*dj in units of 1/(16*Scale), d, di, dj in units of
\* 1/(4*Scale); NaN when one of them is.
C9_Blend(d, di, dj, cell) ==
    IF d.nan \/ di.nan \/ dj.nan THEN cell.nan
    ELSE ~cell.nan /\ cell.v = d.v + 2 * di.v + 2 * dj.v

\* d itself in units of 1/(16*Scale)
C9_Plain(d, cell) == IF d.nan THEN cell.nan ELSE ~cell.nan /\ cell.v = 4 * d.v

\* C9: with a reference feature both engines write, for every pair i < j,
\* M[i][j] = 0.25*d(i,j) + 0.5*d(i,ref) + 0.5*d(j,ref), d being the pair
\* distance used without a reference; without a reference M[i][j] = d(i,j).
C9_ReferenceBlend ==
    /\ hist_pc = "done" =>
          \A i, j \in 1..Len(histograms) : i < j =>
             LET d == compute_histograms_similarity(histograms[i], histograms[j])
             IN  IF histogram_image_ref # NoRef
                 THEN C9_Blend(d,
                        compute_histograms_similarity(histograms[i], histogram_image_ref),
                        compute_histograms_similarity(histograms[j], histogram_image_ref),
                        distance_matrix[i][j])
                 ELSE C9_Plain(d, distance_matrix[i][j])
    /\ jac_pc = "done" =>
          \A i, j \in 1..Len(jacobians) : i < j =>
             LET g  == reshape_jacobians(jacobians[i])
                 g2 == reshape_jacobians(jacobians[j])
                 d  == compute_jacobians_distance(g, g2, combine)
             IN  IF jacobian_image_ref # NoRef
                 THEN C9_Blend(d,
                        compute_jacobians_distance(g, reshape_jacobians(jacobian_image_ref), combine),
                        compute_jacobians_distance(g2, reshape_jacobians(jacobian_image_ref), combine),
                        jac_matrix[i][j])
                 ELSE C9_Plain(d, jac_matrix[i][j])

\* Either engine has returned a matrix computed with a reference in which
\* the three distances of the first pair differ from one another.
C9_Witness ==
    \/ /\ hist_pc = "done"
       /\ Len(histograms) >= 2
       /\ histogram_image_ref # NoRef
       /\ ValidHistograms
       /\ LET d  == compute_histograms_similarity(histograms[1], histograms[2]).v
              di == compute_histograms_similarity(histograms[1], histogram_image_ref).v
              dj == compute_histograms_similarity(histograms[2], histogram_image_ref).v
          IN  d # di /\ di # dj /\ d # dj /\ distance_matrix[1][2].v > 0
    \/ /\ jac_pc = "done"
       /\ Len(jacobians) >= 2
       /\ jacobian_image_ref # NoRef
       /\ LET g  == reshape_jacobians(jacobians[1])
              g2 == reshape_jacobians(jacobians[2])
              r  == reshape_jacobians(jacobian_image_ref)
              d  == compute_jacobians_distance(g, g2, combine).v
              di == compute_jacobians_distance(g, r, combine).v
              dj == compute_jacobians_distance(g2, r, combine).v
          IN  d # di /\ di # dj /\ d # dj /\ jac_matrix[1][2].v > 0

\* The positions of a listing whose file passes the extension test.
MatchPositions(listing, ext) ==
    {q \in 1..Len(listing) : EndsWith(Lower(listing[q]), ext)}

\* The k-th file of a listing that passes the extension test.
KthMatch(listing, ext, k) ==
    listing[CHOOSE q \in MatchPositions(listing, ext) :
              Cardinality({r \in MatchPositions(listing, ext) : r < q}) = k - 1]

C13_DiagonalUntouched ==
    /\ hist_pc \in {"loop", "done"} =>
          /\ Len(distance_matrix) = Len(histograms)
          /\ \A r \in 1..Len(histograms) : distance_matrix[r][r] = FNum(0)
    /\ jac_pc \in {"loop", "done"} =>
          /\ Len(jac_matrix) = Len(jacobians)
          /\ \A r \in 1..Len(jacobians) : jac_matrix[r][r] = FNum(0)
    /\ ssim.pc \in {"loop", "done", "raised"} =>
          /\ Len(ssim.ssim_scores) = Len(ssim.fragments)
          /\ \A r \in 1..Len(ssim.fragments) : ssim.ssim_scores[r][r] = FNum(3 * Scale)

\* An SSIM engine has returned the matrix of three fragments, with a score
\* other than 1 in it.
C13_Witness ==
    /\ ssim.pc = "done"
    /\ Len(ssim.fragments) = 3
    /\ ssim.ssim_scores[1][2] # FNum(3 * Scale)
    /\ ssim.ssim_scores[3][1] # FNum(3 * Scale)

\* C12: every gradient field compute_jacobians returns, flatten set or not,
\* can be taken apart by reshape_jacobians, so compute_jacobians_dist_matrix
\* accepts what compute_jacobians returns and does not fail in reshaping it.
C12_ReshapeCompatible ==
    /\ (feat.fn = "compute_jacobians" /\ feat.pc = "done") =>
          /\ \A k \in 1..Len(feat.out) : Subscriptable(feat.out[k])
          /\ feat.image_ref # NoRef => Subscriptable(feat.ref_out)
    /\ jac_error # "IndexError"

\* C18: the reference histogram compute_color_histograms returns has the
\* shape of every fragment histogram returned with it, the flat one when
\* flatten is set.
C18_ReferenceShape ==
    (feat.fn = "compute_color_histograms" /\ feat.pc = "done" /\ feat.image_ref # NoRef) =>
        /\ \A k \in 1..Len(feat.out) : feat.out[k].shape = feat.ref_out.shape
        /\ feat.flatten => feat.ref_out.shape = <<NBins>>

\* C14: when create_cluster_dirs has returned, output_dir exists, no file
\* that was in it before the call is in it, and the directories in it are the
\* cluster directories of this call's labels; for every label sequence, the
\* empty one included, whether or not output_dir existed before.
C14_FreshOutputDir ==
    cl_pc = "done" =>
        /\ OutputDir \in fs_dirs
        /\ \A f \in fs_files : IsPrefix(OutputDir, f.dir) => f \notin fs_files0
        /\ \A dir \in fs_dirs :
              (IsPrefix(OutputDir, dir) /\ dir # OutputDir) =>
                  \E k \in 1..Len(labels) : dir = ClusterDir(labels[k])

\* A gradient field with its y-gradient colour slot, jacobian[1][0], wiped.
WipeColorGy(J) == [J EXCEPT ![2][1] = [q \in Pixels |-> 0]]

WipeAll(js) == [k \in 1..Len(js) |-> WipeColorGy(js[k])]

PermutationsOf(n) ==
    {f \in [1..n -> 1..n] : \A k, m \in 1..n : k # m => f[k] # f[m]}

\* What the loop body computes for two histograms of the list hs, hs[a]
\* coming before hs[b] in the list the engine is run on.
PairTable(hs, ref) ==
    [a \in 1..Len(hs) |-> [b \in 1..Len(hs) |->
        IF a = b THEN FNum(0) ELSE HistPairDistance(<<hs[a], hs[b]>>, ref, 1, 2)]]

\* The cell (f[r], f[c]) of the matrix the run on the permuted list returns,
\* the list with the element at place k moved to place f[k]: the value of
\* the two histograms, the one that comes first in that list first.
CellAfter(table, f, r, c) == IF f[r] < f[c] THEN table[r][c] ELSE table[c][r]

-----------------------------------------------------------------------------
\* The cells of a pair of the loops (0-based), 1-based.
OwnCells(p) == {<<p[1] + 1, p[2] + 1>>, <<p[2] + 1, p[1] + 1>>}

\* The cells task k has written so far.
WrittenCells(k) ==
    IF par.status[k] <= 0 THEN {}
    ELSE {<<par.writes[k][m][1], par.writes[k][m][2]>> : m \in 1..par.status[k]}

\* C15: in each pairwise engine the loops pass every unordered pair {i, j},
\* i # j, exactly once; the task of a pair writes the cells (i, j) and (j, i)
\* only, so the tasks of distinct pairs write disjoint cells; and in whatever
\* order the writes of the tasks are interleaved over the matrix allocated
\* beforehand, a cell written holds what the sequential loop left there, a
\* cell not yet written holds its allocated value, and when all tasks have
\* ended the matrix is the one the sequential loop returned.
C15_PairTasksAnyOrder ==
    \A n \in {Len(ParInputs)} : \A pairs \in {LoopPairs(n)} :
        /\ \A k, m \in 1..Len(pairs) : k # m => pairs[k] # pairs[m]
        /\ {pairs[k] : k \in 1..Len(pairs)}
              = {p \in (0..(n - 1)) \X (0..(n - 1)) : p[1] < p[2]}
        /\ par.pc \in {"run", "done", "raised"} =>
              /\ DOMAIN par.status = 1..Len(pairs)
              /\ \A k \in 1..Len(pairs) : WrittenCells(k) \subseteq OwnCells(pairs[k])
              /\ \A k, m \in 1..Len(pairs) :
                    k # m => WrittenCells(k) \cap WrittenCells(m) = {}
              /\ SequentialPc = "done" =>
                    \A written \in {UNION {WrittenCells(k) : k \in 1..Len(pairs)}} :
                        \A r, c \in 1..n :
                            par.matrix[r][c] =
                                IF <<r, c>> \in written
                                THEN SequentialMatrix[r][c]
                                ELSE Allocated(n)[r][c]
        /\ par.pc = "done" => SequentialPc = "done" /\ par.matrix = SequentialMatrix
        /\ par.pc = "raised" => SequentialPc = "raised"

\* Three inputs, the sequential loop has returned, and the tasks are out of
\* the loop's order: the last pair's task has ended, the second pair's task
\* is between its two writes, the first pair's task has not begun.
C15_Witness ==
    /\ par.pc = "run"
    /\ SequentialPc = "done"
    /\ Len(ParInputs) = 3
    /\ par.status = <<0, 1, 2>>
    /\ par.matrix[2][3] # Allocated(3)[2][3]
====
